---- MODULE Spec2Model ----
(***************************************************************************)
(* Streaming classification orchestrator of lion-mobile.                   *)
(*                                                                         *)
(* The streaming App component (src/unnamed/part_000, lines 436-856) is a  *)
(* React function component.  Its useState values are read through the     *)
(* closure of the render in which a handler was created: the interval      *)
(* callback armed by startRecording keeps calling the processStreamingChunk*)
(* / processAudioChunk / handleStreamingResult of the render in which the  *)
(* START button was pressed.  The model keeps, per startRecording call,    *)
(* the values of chunkCount and detectionEvent that this render saw        *)
(* (closures), next to the live state and the refs, which every closure    *)
(* shares.                                                                 *)
(*                                                                         *)
(* Every action is one run-to-completion segment of JavaScript between two *)
(* awaits.  Times are milliseconds.  Samples are integers (0 = silence,    *)
(* 1 = full scale); RATE is scaled to one sample per second so that a      *)
(* window of CHUNK_DURATION seconds is CHUNK_DURATION samples.  Scores are *)
(* tenths of a percent (301 = 30.1%).                                      *)
(***************************************************************************)
EXTENDS Integers, Sequences, FiniteSets, TLC

\* ---------------------------------------------------------------- constants
\* streamingConfig.RATE, in samples per second: 22050 in the source, scaled to
\* 1 here (see above); every other constant has the source's value.
RATE == 1
\* streamingConfig.CHUNK_DURATION, seconds
CHUNK_DURATION == 4
\* streamingConfig.STREAM_INTERVAL, milliseconds
STREAM_INTERVAL == 500
\* aiPercent > 30 in handleStreamingResult
STREAM_THRESHOLD == 30
\* .slice(0, 20) in handleStreamingResult
STREAM_HISTORY == 20
\* for (let i = 0; i < 10; i++) in processAudioChunk
POLL_ATTEMPTS == 10
\* aiPercent > 50 in processAudio (single-clip flow)
CLIP_THRESHOLD == 50
\* .slice(0, 10) in processAudio (single-clip flow)
CLIP_HISTORY == 10
\* for (let i = 0; i < 30; i++) in processAudio (single-clip flow)
CLIP_POLL_ATTEMPTS == 30
\* The tick of the single-clip progress timer at which newProgress >= 1
\* holds first: progress starts at 0 and grows by 1 / 30 per tick, and in
\* double precision thirty additions of 1 / 30 give 0.9999999999999999.
PROGRESS_TICKS == 31
\* streamingConfig.BUFFER_DURATION, seconds; no statement of the source reads it
BUFFER_DURATION == 8
\* 0x7FFF, the factor of sample * 0x7FFF in createWavBlob
INT16_MAX == 32767

\* ------------------------------------------------------------------- bounds
MaxStarts == 2
MaxDispatch == 3
MaxJobs == 2
MaxBuffer == 6
TimeStep == 500
Epoch == 1000
MaxTime == 2000
MaxPush == 22
MaxTenths == 1000
MaxClips == 2
MaxChunks == 2
MaxWindow == 3
MaxLines == 2
MaxPieces == 4
MaxFill == 10
SampleScale == 2
GateStep == 250
MaxStops == 3
MaxClipStarts == 2

VARIABLES
  now,                      \* Date.now()
  isDevelopment,            \* module constant isDevelopment
  isRecording,              \* useState
  chunkCount,               \* useState
  detectionEvent,           \* useState
  lastResult,               \* useState
  history,                  \* useState
  streamingStatus,          \* useState
  audioBufferRef,           \* useRef
  streamingIntervalRef,     \* useRef: id of the timer held, 0 = null
  isStreamingRef,           \* useRef
  lastProcessTimeRef,       \* useRef
  consecutiveDetectionsRef, \* useRef
  recordingRef,             \* useRef: id of the recording held, 0 = null
  closures,                 \* per startRecording call: state seen by its render
  starting,                 \* startRecording calls awaiting the capture device
  stopping,                 \* stopRecording calls awaiting the capture device,
                            \* each with the handle it awaits
  timers,                   \* live setInterval timers
  jobs,                     \* processAudioChunk calls in progress
  dispatchLog,              \* windows dispatched, in dispatch order
  resultLog,                \* results handled, in handling order
  stoppedSince,             \* stopRecording ran and no startRecording since
  clipHistory,              \* single-clip flow: useState history
  clipLastResult,           \* single-clip flow: useState lastResult
  clipLog,                  \* single-clip flow: results produced, in order
  clipJob,                  \* single-clip flow: the processAudio call
  clipRec,                  \* single-clip flow: the recording state (useState
                            \* isRecording, isProcessing, progress,
                            \* devRecording), the progress timers, the
                            \* captures in progress, the stopRecording calls
  tracing,                  \* the network traffic of every chunk is recorded
  netLog,                   \* per dispatched chunk: requests sent, responses
                            \* received and how the chunk ended
  stopCalls,                \* stopRecording calls made, where traffic is
                            \* recorded
  tempFiles,                \* FileSystem.cacheDirectory where traffic is
                            \* recorded: the chunk files, each with its path
                            \* (chunk_<path>.wav) and the chunk that wrote it
  wavCase,                  \* createWavBlob: arguments and bytes returned
  scanCase,                 \* poll response scan: lines and result found
  parseCase                 \* score parser: text and scores parsed

vars == <<now, isDevelopment, isRecording, chunkCount, detectionEvent,
          lastResult, history, streamingStatus, audioBufferRef,
          streamingIntervalRef, isStreamingRef, lastProcessTimeRef,
          consecutiveDetectionsRef, recordingRef, closures, starting,
          stopping, timers, jobs, dispatchLog, resultLog, stoppedSince,
          clipHistory, clipLastResult, clipLog, clipJob, clipRec, tracing,
          netLog, tempFiles, stopCalls, wavCase, scanCase, parseCase>>

reactState == <<isRecording, chunkCount, detectionEvent, lastResult, history,
                streamingStatus>>
refs == <<audioBufferRef, streamingIntervalRef, isStreamingRef,
          lastProcessTimeRef, consecutiveDetectionsRef, recordingRef>>
clipVars == <<clipHistory, clipLastResult, clipLog, clipJob, clipRec>>
pureVars == <<wavCase, scanCase, parseCase>>

NoResult == [chunkId |-> 0, aiPercent |-> 0, isAI |-> FALSE, timestamp |-> 0]
Status(tag, n, ai) == [tag |-> tag, n |-> n, ai |-> ai]

\* ------------------------------------------------------------ pure helpers
RECURSIVE SumSq(_)
SumSq(s) == IF s = <<>> THEN 0 ELSE Head(s) * Head(s) + SumSq(Tail(s))

\* calculateRMS(audioData) < MIN_VOLUME_THRESHOLD, with the threshold 0.0001:
\* sqrt(sum / n) < 10^-4  <=>  sum * 10^8 < n; the empty array has RMS 0.
VolumeBelowThreshold(audioData) ==
  IF Len(audioData) = 0 THEN TRUE
  ELSE SumSq(audioData) * 100000000 < Len(audioData)

\* bufferCopy.slice(-samplesNeeded)
\* (variant: slice(0, samplesNeeded), the oldest samples)
SliceOldest(s, n) ==
  IF Len(s) <= n THEN s ELSE SubSeq(s, 1, n)
SliceTail(s, n) ==
  IF Len(s) <= n THEN s ELSE SubSeq(s, Len(s) - n + 1, Len(s))

samplesNeeded == CHUNK_DURATION * RATE

\* [detectionResult, ...prev].slice(0, cap)
SliceHead(s, cap) == IF Len(s) <= cap THEN s ELSE SubSeq(s, 1, cap)
\* (variant: the new record appended at the tail before truncating)
PushHistoryAtTail(prev, r, cap) == SliceHead(prev \o <<r>>, cap)
PushHistory(prev, r, cap) == SliceHead(<<r>> \o prev, cap)

\* const isAI = aiPercent > 30   (streaming), > 50 (single clip)
\* (variant: a score equal to the threshold counts as AI)
IsAIStreamingInclusive(aiTenths) == aiTenths >= STREAM_THRESHOLD * 10
IsAIStreaming(aiTenths) == aiTenths > STREAM_THRESHOLD * 10
IsAIClip(aiTenths) == aiTenths > CLIP_THRESHOLD * 10


\* ------------------------------------------------------------------- values
Blocks == {<<0, 0>>, <<1, 1>>}      \* batches of samples the capture delivers
PollScores == {300, 301}            \* classifier scores seen in a session

Job(seq, chunkId, cl) ==
  [seq |-> seq, chunkId |-> chunkId, cl |-> cl, phase |-> "file",
   eventId |-> FALSE, i |-> 0]

\* The record of a chunk's traffic, as of its dispatch: alone tells whether
\* no other chunk was in progress then, window is chunkData, the array handed
\* to createWavBlob, buffer the sample buffer it was sliced from, and at the
\* time (const now = Date.now()) of the tick that dispatched it.
NewTrace(alone, window, buffer) ==
  [alone |-> alone, upload |-> "none", submit |-> "none", polls |-> 0,
   ended |-> "", window |-> window, buffer |-> buffer, file |-> "none",
   at |-> now]

\* netLog with the fields of upd entered in the record of chunk seq.
Trace(seq, upd) ==
  IF tracing
    THEN [netLog EXCEPT ![seq] =
            [f \in DOMAIN @ |-> IF f \in DOMAIN upd THEN upd[f] ELSE @[f]]]
    ELSE netLog

\* The cache directory after the step of job j that upd records: the file
\* chunk_<j.chunkId>.wav written by writeAsStringAsync (whatever was at that
\* path is replaced), or removed by deleteAsync (idempotent: no file, no
\* error).
FilesAfter(j, upd) ==
  IF ~tracing \/ "file" \notin DOMAIN upd THEN tempFiles
  ELSE IF upd.file = "written"
    THEN {f \in tempFiles : f.path # j.chunkId}
           \cup {[path |-> j.chunkId, by |-> j.seq]}
  ELSE {f \in tempFiles : f.path # j.chunkId}

\* No processAudio call yet; nothing applied yet to a pure function.
NoClipJob ==
  [n |-> 0, phase |-> "idle", eventId |-> FALSE, i |-> 0, upload |-> "none",
   submit |-> "none", polls |-> 0, ended |-> ""]
NoCase == [applied |-> FALSE]

\* The single-clip component after its first render: nothing recorded yet.
NoClipRec ==
  [isRecording |-> FALSE, isProcessing |-> FALSE, progress |-> 0,
   devRecording |-> 0, started |-> 0, timers |-> {}, capturing |-> {},
   running |-> 0, log |-> <<>>]

\* -------------------------------------------------------------------- Init
\* The component after its first render.
InitApp ==
  /\ now = Epoch
  /\ isDevelopment \in BOOLEAN
  /\ isRecording = FALSE
  /\ chunkCount = 0
  /\ detectionEvent = FALSE
  /\ lastResult = NoResult
  /\ history = <<>>
  /\ streamingStatus = Status("", 0, FALSE)
  /\ audioBufferRef = <<>>
  /\ streamingIntervalRef = 0
  /\ isStreamingRef = FALSE
  /\ lastProcessTimeRef = 0
  /\ consecutiveDetectionsRef = 0
  /\ recordingRef = 0
  /\ closures = <<>>
  /\ starting = {}
  /\ stopping = <<>>
  /\ timers = {}
  /\ jobs = {}
  /\ dispatchLog = <<>>
  /\ resultLog = <<>>
  /\ stoppedSince = FALSE
  /\ clipHistory = <<>>
  /\ clipLastResult = NoResult
  /\ clipLog = <<>>
  /\ clipJob = NoClipJob
  /\ clipRec = NoClipRec
  /\ netLog = <<>>
  /\ tempFiles = {}
  /\ stopCalls = 0

Init ==
  /\ InitApp
  /\ tracing = FALSE
  /\ wavCase = NoCase
  /\ scanCase = NoCase
  /\ parseCase = NoCase

\* ------------------------------------------------------------- environment
\* Wall-clock time passes.
AdvanceBy(step) ==
  /\ now + step <= MaxTime
  /\ now' = now + step
  /\ UNCHANGED <<isDevelopment, reactState, refs, closures, starting, stopping,
                 timers, jobs, dispatchLog, resultLog, stoppedSince,
                 clipVars, tracing, netLog, tempFiles,
                 stopCalls, pureVars>>
Advance == AdvanceBy(TimeStep)

\* The capture collaborator appends a batch of samples (spec 4.1 append); the
\* source's recording status callback is the place it would do so.  The
\* append enforces no upper bound; max bounds the samples explored.
AppendSamplesUpTo(block, max) ==
  /\ isRecording
  /\ Len(audioBufferRef) + Len(block) <= max
  /\ audioBufferRef' = audioBufferRef \o block
  /\ UNCHANGED <<now, isDevelopment, reactState, streamingIntervalRef,
                 isStreamingRef, lastProcessTimeRef, consecutiveDetectionsRef,
                 recordingRef, closures, starting, stopping, timers, jobs,
                 dispatchLog, resultLog, stoppedSince,
                 clipVars, tracing, netLog, tempFiles,
                 stopCalls, pureVars>>
AppendSamples(block) == AppendSamplesUpTo(block, MaxBuffer)

\* ---------------------------------------------------------- startRecording
\* START pressed: the synchronous part up to the await of the capture device.
\* The handler belongs to the current render, whose chunkCount and
\* detectionEvent every function it calls later keeps reading.
\* (variant: the resets of a new session include setHistory([]))
StartRecordingClearsHistory ==
  /\ ~isRecording
  /\ Len(closures) < MaxStarts
  /\ closures' = Append(closures, [cc |-> chunkCount, de |-> detectionEvent])
  /\ audioBufferRef' = <<>>
  /\ chunkCount' = 0
  /\ consecutiveDetectionsRef' = 0
  /\ detectionEvent' = FALSE
  /\ history' = <<>>
  /\ isStreamingRef' = TRUE
  /\ starting' = starting \cup {Len(closures) + 1}
  /\ stoppedSince' = FALSE
  /\ UNCHANGED <<now, isDevelopment, isRecording, lastResult,
                 streamingStatus, streamingIntervalRef, lastProcessTimeRef,
                 recordingRef, stopping, timers, jobs, dispatchLog, resultLog,
                 clipVars, tracing, netLog, tempFiles,
                 stopCalls, pureVars>>
StartRecording ==
  /\ ~isRecording
  /\ Len(closures) < MaxStarts
  /\ closures' = Append(closures, [cc |-> chunkCount, de |-> detectionEvent])
  /\ audioBufferRef' = <<>>
  /\ chunkCount' = 0
  /\ consecutiveDetectionsRef' = 0
  /\ detectionEvent' = FALSE
  /\ isStreamingRef' = TRUE
  /\ starting' = starting \cup {Len(closures) + 1}
  /\ stoppedSince' = FALSE
  /\ UNCHANGED <<now, isDevelopment, isRecording, lastResult, history,
                 streamingStatus, streamingIntervalRef, lastProcessTimeRef,
                 recordingRef, stopping, timers, jobs, dispatchLog, resultLog,
                 clipVars, tracing, netLog, tempFiles,
                 stopCalls, pureVars>>

\* The capture device started: the rest of startRecording's try block.  A
\* timer is the call that armed it and the time of its last firing; where
\* traffic is traced it also keeps the time it was armed at.
StartResolved(k) ==
  /\ k \in starting
  /\ starting' = starting \ {k}
  /\ recordingRef' = IF isDevelopment THEN k ELSE recordingRef
  /\ isRecording' = TRUE
  /\ streamingStatus' = Status("waiting", 0, FALSE)
  /\ timers' = timers \cup {[id |-> k, last |-> now,
                             armed |-> IF tracing THEN now ELSE 0]}
  /\ streamingIntervalRef' = k
  /\ UNCHANGED <<now, isDevelopment, chunkCount, detectionEvent, lastResult,
                 history, audioBufferRef, isStreamingRef, lastProcessTimeRef,
                 consecutiveDetectionsRef, closures, stopping, jobs,
                 dispatchLog, resultLog, stoppedSince,
                 clipVars, tracing, netLog, tempFiles,
                 stopCalls, pureVars>>

\* The capture device failed: startRecording's catch block.
StartRejected(k) ==
  /\ k \in starting
  /\ starting' = starting \ {k}
  /\ isRecording' = FALSE
  /\ isStreamingRef' = FALSE
  /\ UNCHANGED <<now, isDevelopment, chunkCount, detectionEvent, lastResult,
                 history, streamingStatus, audioBufferRef, streamingIntervalRef,
                 lastProcessTimeRef, consecutiveDetectionsRef, recordingRef,
                 closures, stopping, timers, jobs, dispatchLog, resultLog,
                 stoppedSince, clipVars, tracing, netLog, tempFiles,
                 stopCalls, pureVars>>

\* ----------------------------------------------------------- stopRecording
\* What stopRecording awaits: the recording held (development) or the screen
\* recorder; 0 when nothing is awaited.
StopAwaits == IF isDevelopment THEN recordingRef ELSE 1

\* if (!isRecording) return;
\* (variant: stopRecording without its first line)
NotRecordingUnchecked == FALSE
NotRecording == ~isRecording

\* stopRecording past its first line: the part up to the await of the capture
\* device; without a recording to unload in development mode the function
\* runs through to the status update.
StopBody ==
  /\ stopCalls' = IF tracing THEN stopCalls + 1 ELSE stopCalls
  /\ isStreamingRef' = FALSE
  /\ isRecording' = FALSE
  /\ timers' = {t \in timers : t.id # streamingIntervalRef}
  /\ streamingIntervalRef' = 0
  /\ stoppedSince' = TRUE
  /\ IF StopAwaits # 0
       THEN /\ stopping' = Append(stopping, StopAwaits)
            /\ UNCHANGED streamingStatus
       ELSE /\ streamingStatus' = Status("stopped", 0, FALSE)
            /\ UNCHANGED stopping
  /\ UNCHANGED <<now, isDevelopment, chunkCount, detectionEvent, lastResult,
                 history, audioBufferRef, lastProcessTimeRef,
                 consecutiveDetectionsRef, recordingRef, closures, starting,
                 jobs, dispatchLog, resultLog,
                 clipVars, tracing, netLog, tempFiles, pureVars>>

\* STOP pressed: the button shows STOP, and calls stopRecording, only while
\* isRecording.
StopRecording == isRecording /\ StopBody

\* stopRecording called in any state, by whatever caller.
StopRecordingCalled ==
  /\ stopCalls < MaxStops
  /\ IF NotRecording
       THEN /\ stopCalls' = stopCalls + 1
            /\ UNCHANGED <<now, isDevelopment, reactState, refs, closures,
                           starting, stopping, timers, jobs, dispatchLog,
                           resultLog, stoppedSince, clipVars, tracing, netLog,
                           tempFiles, pureVars>>
       ELSE StopBody

\* The capture device stopped: the rest of stopRecording's try block.
StopResolved(n) ==
  /\ n \in 1..Len(stopping)
  /\ stopping' = SubSeq(stopping, 1, n - 1) \o
                 SubSeq(stopping, n + 1, Len(stopping))
  /\ recordingRef' = IF isDevelopment THEN 0 ELSE recordingRef
  /\ streamingStatus' = Status("stopped", 0, FALSE)
  /\ UNCHANGED <<now, isDevelopment, isRecording, chunkCount, detectionEvent,
                 lastResult, history, audioBufferRef, streamingIntervalRef,
                 isStreamingRef, lastProcessTimeRef, consecutiveDetectionsRef,
                 closures, starting, timers, jobs, dispatchLog, resultLog,
                 stoppedSince, clipVars, tracing, netLog, tempFiles,
                 stopCalls, pureVars>>

\* The capture device failed to stop: stopRecording's catch block only logs.
StopRejected(n) ==
  /\ n \in 1..Len(stopping)
  /\ stopping' = SubSeq(stopping, 1, n - 1) \o
                 SubSeq(stopping, n + 1, Len(stopping))
  /\ UNCHANGED <<now, isDevelopment, reactState, refs, closures, starting,
                 timers, jobs, dispatchLog, resultLog, stoppedSince,
                 clipVars, tracing, netLog, tempFiles,
                 stopCalls, pureVars>>


\* ---------------------------------------------------- processStreamingChunk
\* The gates of a tick, in the order the code tests them.
\* (variants: the first gate without its test of the buffer's length; the
\* interval gate left out)
NotStreamingFlagOnly == ~isStreamingRef
NotStreaming == ~isStreamingRef \/ Len(audioBufferRef) = 0
TooSoonUngated == FALSE
TooSoon == now - lastProcessTimeRef < STREAM_INTERVAL
Buffering == Len(audioBufferRef) < CHUNK_DURATION * RATE
TooQuiet == VolumeBelowThreshold(audioBufferRef)

\* const currentChunkId = chunkCount + 1, chunkCount being the one of the
\* render whose startRecording armed the timer.
CurrentChunkId(cl) == closures[cl].cc + 1

\* One firing of the interval armed by startRecording call t.id: the body of
\* processStreamingChunk up to its first await.
Tick(t) ==
  /\ t \in timers
  /\ now - t.last >= STREAM_INTERVAL
  /\ timers' = (timers \ {t}) \cup {[t EXCEPT !.last = now]}
  /\ IF NotStreaming \/ TooSoon
       THEN UNCHANGED <<lastProcessTimeRef, streamingStatus, chunkCount, jobs,
                        dispatchLog, netLog>>
       ELSE /\ lastProcessTimeRef' = now
            /\ IF Buffering
                 THEN /\ streamingStatus' =
                           Status("buffering", Len(audioBufferRef), FALSE)
                      /\ UNCHANGED <<chunkCount, jobs, dispatchLog, netLog>>
                 ELSE IF TooQuiet
                 THEN /\ streamingStatus' = Status("quiet", 0, FALSE)
                      /\ UNCHANGED <<chunkCount, jobs, dispatchLog, netLog>>
                 ELSE /\ Len(dispatchLog) < MaxDispatch
                      /\ Cardinality(jobs) < MaxJobs
                      /\ chunkCount' = CurrentChunkId(t.id)
                      /\ streamingStatus' =
                           Status("processing", CurrentChunkId(t.id), FALSE)
                      /\ jobs' = jobs \cup
                           {Job(Len(dispatchLog) + 1, CurrentChunkId(t.id), t.id)}
                      /\ dispatchLog' = Append(dispatchLog,
                           [chunkId |-> CurrentChunkId(t.id),
                            session |-> t.id])
                      /\ netLog' = IF tracing
                                     THEN Append(netLog, NewTrace(jobs = {},
                                            SliceTail(audioBufferRef,
                                                      samplesNeeded),
                                            audioBufferRef))
                                     ELSE netLog
  /\ UNCHANGED <<now, isDevelopment, isRecording, detectionEvent, lastResult,
                 history, audioBufferRef, streamingIntervalRef, isStreamingRef,
                 consecutiveDetectionsRef, recordingRef, closures, starting,
                 stopping, resultLog, stoppedSince, clipVars, tracing,
                 tempFiles, stopCalls, pureVars>>

\* ------------------------------------------------------- processAudioChunk
\* Any failure inside processAudioChunk is caught by its own catch block, which
\* logs and returns: the chunk ends and nothing else changes.
\* (variant: the failure reaches the interval callback and ends the session)
ChunkEndsSession(j, upd) ==
  /\ jobs' = jobs \ {j}
  /\ netLog' = Trace(j.seq, upd)
  /\ timers' = {}
  /\ isStreamingRef' = FALSE
  /\ UNCHANGED <<now, isDevelopment, reactState, audioBufferRef,
                 streamingIntervalRef, lastProcessTimeRef,
                 consecutiveDetectionsRef, recordingRef, closures, starting,
                 stopping, dispatchLog, resultLog, stoppedSince, clipVars,
                 tracing, stopCalls, pureVars>>
  /\ tempFiles' = FilesAfter(j, upd)
ChunkEnds(j, upd) ==
  /\ jobs' = jobs \ {j}
  /\ netLog' = Trace(j.seq, upd)
  /\ tempFiles' = FilesAfter(j, upd)
  /\ UNCHANGED <<now, isDevelopment, reactState, refs, closures, starting,
                 stopping, timers, dispatchLog, resultLog, stoppedSince,
                 clipVars, tracing, stopCalls, pureVars>>

Moves(j, next, upd) ==
  /\ jobs' = (jobs \ {j}) \cup {next}
  /\ netLog' = Trace(j.seq, upd)
  /\ tempFiles' = FilesAfter(j, upd)
  /\ UNCHANGED <<now, isDevelopment, reactState, refs, closures, starting,
                 stopping, timers, dispatchLog, resultLog, stoppedSince,
                 clipVars, tracing, stopCalls, pureVars>>

\* The WAV blob is read and written to the temporary file; the upload request
\* is sent (or the write fails).
FileWritten(j, ok) ==
  /\ j \in jobs /\ j.phase = "file"
  /\ IF ok THEN Moves(j, [j EXCEPT !.phase = "upload"],
                      [upload |-> "sent", file |-> "written"])
     ELSE ChunkEnds(j, [ended |-> "file"])

\* The upload response arrives: uploadResponse.ok or not.  With a response
\* that is ok the submit request is sent.
\* (variant: the status of the response is not looked at)
UploadResponseUnchecked(j, ok) ==
  /\ j \in jobs /\ j.phase = "upload"
  /\ Moves(j, [j EXCEPT !.phase = "submit"],
           [upload |-> IF ok THEN "ok" ELSE "failed", submit |-> "sent"])
UploadResponse(j, ok) ==
  /\ j \in jobs /\ j.phase = "upload"
  /\ IF ok THEN Moves(j, [j EXCEPT !.phase = "submit"],
                      [upload |-> "ok", submit |-> "sent"])
     ELSE ChunkEnds(j, [upload |-> "failed", ended |-> "upload"])

\* The submit response arrives: JSON with an event_id, JSON without one, or
\* a body json() rejects.  Unless json() rejects, the first poll request is
\* sent, to the URL made from predictionResult.event_id whatever it is.
SubmitResponse(j, r) ==
  /\ j \in jobs /\ j.phase = "submit"
  /\ IF r = "malformed"
       THEN ChunkEnds(j, [submit |-> r, ended |-> "submit"])
       ELSE Moves(j, [j EXCEPT !.phase = "poll", !.eventId = (r = "event_id")],
                  [submit |-> r, polls |-> 1])

\* handleStreamingResult(result, chunkId), run in the closure cl.
HandleStreamingResult(aiTenths, chunkId, cl, seq) ==
  LET isAI == IsAIStreaming(aiTenths)
      detectionResult ==
        [chunkId |-> chunkId, aiPercent |-> aiTenths, isAI |-> isAI,
         timestamp |-> now]
      seen == closures[cl].de
      rising == isAI /\ ~seen
      falling == ~isAI /\ seen /\ consecutiveDetectionsRef > 0
  IN /\ lastResult' = detectionResult
     /\ history' = PushHistory(history, detectionResult, STREAM_HISTORY)
     /\ consecutiveDetectionsRef' =
          IF isAI THEN consecutiveDetectionsRef + 1
          ELSE IF falling THEN 0 ELSE consecutiveDetectionsRef
     /\ detectionEvent' =
          IF rising THEN TRUE ELSE IF falling THEN FALSE ELSE detectionEvent
     /\ streamingStatus' = Status("chunk", chunkId, isAI)
     /\ resultLog' = Append(resultLog,
          [seq |-> seq, session |-> cl, result |-> detectionResult,
           edge |-> IF rising THEN "rise" ELSE IF falling THEN "fall"
                    ELSE "none"])

\* A poll response with a result line: the result is handled, the temporary
\* file deleted, and the chunk ends.
PollResult(j, aiTenths) ==
  /\ j \in jobs /\ j.phase = "poll" /\ j.eventId
  /\ HandleStreamingResult(aiTenths, j.chunkId, j.cl, j.seq)
  /\ jobs' = jobs \ {j}
  /\ netLog' = Trace(j.seq, [ended |-> "result", file |-> "deleted"])
  /\ tempFiles' = FilesAfter(j, [file |-> "deleted"])
  /\ UNCHANGED <<now, isDevelopment, isRecording, chunkCount, audioBufferRef,
                 streamingIntervalRef, isStreamingRef, lastProcessTimeRef,
                 recordingRef, closures, starting, stopping, timers,
                 dispatchLog, stoppedSince, clipVars, tracing, stopCalls,
                 pureVars>>

\* A poll response without a result line: after the delay the next attempt is
\* sent, or the loop ends after POLL_ATTEMPTS attempts, the temporary file is
\* deleted and the chunk ends.
\* (variant: one more attempt than the loop's bound)
PollEmptyOneMore(j) ==
  /\ j \in jobs /\ j.phase = "poll"
  /\ IF j.i + 1 < POLL_ATTEMPTS + 1
       THEN Moves(j, [j EXCEPT !.i = j.i + 1], [polls |-> j.i + 2])
       ELSE ChunkEnds(j, [ended |-> "exhausted", file |-> "deleted"])
PollEmpty(j) ==
  /\ j \in jobs /\ j.phase = "poll"
  /\ IF j.i + 1 < POLL_ATTEMPTS
       THEN Moves(j, [j EXCEPT !.i = j.i + 1], [polls |-> j.i + 2])
       ELSE ChunkEnds(j, [ended |-> "exhausted", file |-> "deleted"])

\* A poll request fails (fetch rejects).
PollRejected(j) ==
  /\ j \in jobs /\ j.phase = "poll"
  /\ ChunkEnds(j, [ended |-> "rejected"])

\* A poll response whose first data array starts with a value that is truthy
\* and not a string: handleStreamingResult is called with it and result.match
\* throws before anything is set; the catch block of processAudioChunk logs.
PollResultThrows(j) ==
  /\ j \in jobs /\ j.phase = "poll" /\ j.eventId
  /\ ChunkEnds(j, [ended |-> "threw"])

\* -------------------------------------------------------------------- Next
Next ==
  \/ Advance
  \/ \E block \in Blocks : AppendSamples(block)
  \/ StartRecording
  \/ \E k \in starting : StartResolved(k)
  \/ \E k \in starting : StartRejected(k)
  \/ StopRecording
  \/ \E n \in 1..Len(stopping) : StopResolved(n)
  \/ \E n \in 1..Len(stopping) : StopRejected(n)
  \/ \E t \in timers : Tick(t)
  \/ \E j \in jobs, ok \in BOOLEAN : FileWritten(j, ok)
  \/ \E j \in jobs, ok \in BOOLEAN : UploadResponse(j, ok)
  \/ \E j \in jobs, r \in {"event_id", "no_id", "malformed"} : SubmitResponse(j, r)
  \/ \E j \in jobs, a \in PollScores : PollResult(j, a)
  \/ \E j \in jobs : PollEmpty(j)
  \/ \E j \in jobs : PollRejected(j)
  \/ \E j \in jobs : PollResultThrows(j)

Spec == Init /\ [][Next]_vars


\* ------------------------------------------- single-clip flow (src/App.tsx)
\* processAudio, from the result found by the poll loop to the history update:
\* the scores are compared with 50 and the record is prepended to a history of
\* at most 10.  The record has no chunkId.
HandleClipResult(aiTenths) ==
  LET detectionResult ==
        [aiPercent |-> aiTenths, isAI |-> IsAIClip(aiTenths),
         timestamp |-> now]
  IN /\ clipLastResult' = detectionResult
     /\ clipHistory' = PushHistory(clipHistory, detectionResult, CLIP_HISTORY)
     /\ clipLog' = Append(clipLog, detectionResult)

streamingVars == <<reactState, refs, closures, starting, stopping, timers, jobs,
                   dispatchLog, resultLog, stoppedSince, netLog,
                   tempFiles, stopCalls>>

ClipResult(aiTenths) ==
  /\ HandleClipResult(aiTenths)
  /\ UNCHANGED <<now, isDevelopment, streamingVars, clipJob, clipRec, tracing,
                 pureVars>>

\* processAudio(audioPath), called by stopRecording: the form is built and the
\* upload request sent.
ProcessAudio ==
  /\ clipJob.phase \in {"idle", "done"}
  /\ clipJob.n < MaxClips
  /\ clipJob' = [NoClipJob EXCEPT !.n = clipJob.n + 1, !.phase = "upload",
                                  !.upload = "sent"]
  /\ UNCHANGED <<now, isDevelopment, streamingVars, clipHistory,
                 clipLastResult, clipLog, clipRec, tracing, pureVars>>

\* A step of processAudio that handles no result: the call moves on or ends.
ClipMoves(next) ==
  /\ clipJob' = next
  /\ UNCHANGED <<now, isDevelopment, streamingVars, clipHistory,
                 clipLastResult, clipLog, clipRec, tracing, pureVars>>

\* The upload response arrives; a response that is not ok throws into the
\* catch block (alert), else the submit request is sent.
ClipUploadResponse(ok) ==
  /\ clipJob.phase = "upload"
  /\ ClipMoves(IF ok
       THEN [clipJob EXCEPT !.phase = "submit", !.upload = "ok",
                            !.submit = "sent"]
       ELSE [clipJob EXCEPT !.phase = "done", !.upload = "failed",
                            !.ended = "upload"])

\* The submit response arrives; unless json() rejects, the first poll request
\* is sent, to the URL made from predictionResult.event_id whatever it is.
ClipSubmitResponse(r) ==
  /\ clipJob.phase = "submit"
  /\ ClipMoves(IF r = "malformed"
       THEN [clipJob EXCEPT !.phase = "done", !.submit = r, !.ended = "submit"]
       ELSE [clipJob EXCEPT !.phase = "poll", !.submit = r, !.polls = 1,
                            !.eventId = (r = "event_id")])

\* A poll response with a result line: the scores are read, the record is
\* stored and the call ends.
ClipPollResult(aiTenths) ==
  /\ clipJob.phase = "poll" /\ clipJob.eventId
  /\ HandleClipResult(aiTenths)
  /\ clipJob' = [clipJob EXCEPT !.phase = "done", !.ended = "result"]
  /\ UNCHANGED <<now, isDevelopment, streamingVars, clipRec, tracing,
                 pureVars>>

\* A poll response without a result line: after the delay the next attempt
\* is sent, or the loop ends after CLIP_POLL_ATTEMPTS attempts.
ClipPollEmpty ==
  /\ clipJob.phase = "poll"
  /\ ClipMoves(IF clipJob.i + 1 < CLIP_POLL_ATTEMPTS
       THEN [clipJob EXCEPT !.i = clipJob.i + 1, !.polls = clipJob.i + 2]
       ELSE [clipJob EXCEPT !.phase = "done", !.ended = "exhausted"])

\* A poll request fails (fetch rejects), or result.match throws on a result
\* that is not a string: the catch block of processAudio alerts.
ClipPollRejected(how) ==
  /\ clipJob.phase = "poll"
  /\ how = "threw" => clipJob.eventId
  /\ ClipMoves([clipJob EXCEPT !.phase = "done", !.ended = how])

\* ------------------------------- single-clip recording (src/App.tsx 75-173)
\* Every action is a call together with the answer of the capture device it
\* awaits.  progress counts additions of 1 / 30, PROGRESS_TICKS standing for
\* the value 1 it is capped at.
ClipFrame ==
  UNCHANGED <<now, isDevelopment, streamingVars, clipHistory, clipLastResult,
              clipLog, clipJob, tracing, pureVars>>

\* stopRecording() in a render that saw devRecording = dev, with rec the
\* state it finds: setIsRecording(false); in development the recording dev
\* is stopped and unloaded (no recording, or one unloaded before: the call
\* throws into the catch block, which alerts); in production the screen
\* recorder is stopped (idle tells whether it answers with a path when
\* nothing is being recorded).  With an answer: setDevRecording(null),
\* setIsProcessing(true) and processAudio(audioPath).  Each call is logged:
\* who called, the session of the calling timer, the session current at the
\* call, the capture stopped and whether processAudio was run.
ClipStopRecording(rec, by, timer, dev, idle) ==
  LET target == IF isDevelopment THEN dev
                ELSE IF rec.capturing = {} THEN 0
                ELSE CHOOSE c \in rec.capturing : TRUE
      stops == target \in rec.capturing
      answers == IF isDevelopment THEN stops ELSE stops \/ idle
  IN [rec EXCEPT
        !.isRecording = FALSE,
        !.capturing = IF stops THEN @ \ {target} ELSE @,
        !.devRecording = IF isDevelopment /\ answers THEN 0 ELSE @,
        !.isProcessing = IF answers THEN TRUE ELSE @,
        !.running = IF answers THEN @ + 1 ELSE @,
        !.log = Append(@, [by |-> by, timer |-> timer,
                           session |-> rec.started,
                           stopped |-> IF stops THEN target ELSE 0,
                           run |-> answers])]

\* START pressed (the button calls startRecording while isRecording is false,
\* and is disabled while isProcessing): the capture starts, then
\* setDevRecording (development), setIsRecording(true), setProgress(0) and
\* setInterval; the timer's callback calls the stopRecording of this render,
\* which saw the devRecording of before.  Or the capture fails: the catch
\* block alerts and sets isRecording false.
ClipStartRecording(ok) ==
  /\ ~clipRec.isRecording /\ ~clipRec.isProcessing
  /\ clipRec.started < MaxClipStarts
  /\ LET k == clipRec.started + 1
     IN clipRec' =
          IF ok
            THEN [clipRec EXCEPT
                    !.started = k,
                    !.capturing = @ \cup {k},
                    !.devRecording = IF isDevelopment THEN k ELSE @,
                    !.isRecording = TRUE,
                    !.progress = 0,
                    !.timers = @ \cup {[id |-> k, dev |-> clipRec.devRecording]}]
            ELSE [clipRec EXCEPT !.started = k, !.isRecording = FALSE]
  /\ ClipFrame

\* STOP pressed: the stopRecording of the current render.
ClipStopPressed(idle) ==
  /\ clipRec.isRecording /\ ~clipRec.isProcessing
  /\ clipRec' = ClipStopRecording(clipRec, "button", 0,
                                  clipRec.devRecording, idle)
  /\ ClipFrame

\* The progress timer of session t.id fires: the updater adds 1 / 30, and
\* when the sum reaches 1 it clears this timer and calls stopRecording.
ClipProgressTick(t, idle) ==
  /\ t \in clipRec.timers
  /\ LET newProgress == clipRec.progress + 1
         out == newProgress >= PROGRESS_TICKS
         rec == [clipRec EXCEPT
                   !.progress = IF out THEN PROGRESS_TICKS ELSE newProgress,
                   !.timers = IF out THEN @ \ {t} ELSE @]
     IN clipRec' = IF out
                     THEN ClipStopRecording(rec, "timer", t.id, t.dev, idle)
                     ELSE rec
  /\ ClipFrame

\* A processAudio call ends: its finally block sets isProcessing false.
ClipProcessingEnds ==
  /\ clipRec.running > 0
  /\ clipRec' = [clipRec EXCEPT !.running = @ - 1, !.isProcessing = FALSE]
  /\ ClipFrame

NextClip ==
  \/ \E ok \in BOOLEAN : ClipStartRecording(ok)
  \/ \E idle \in BOOLEAN : ClipStopPressed(idle)
  \/ \E t \in clipRec.timers, idle \in BOOLEAN : ClipProgressTick(t, idle)
  \/ ClipProcessingEnds

SpecClip == Init /\ [][NextClip]_vars

\* --------------------------------------------------- result-handling specs
\* The result handlers applied to chosen scores in the first session, without
\* the network round trip in front of them: a result arrives for a chunk of
\* the session whose timer is t.
ResultArrives(t, aiTenths) ==
  /\ t \in timers
  /\ HandleStreamingResult(aiTenths, CurrentChunkId(t.id), t.id,
                           Len(resultLog) + 1)
  /\ UNCHANGED <<now, isDevelopment, isRecording, chunkCount, audioBufferRef,
                 streamingIntervalRef, isStreamingRef, lastProcessTimeRef,
                 recordingRef, closures, starting, stopping, timers, jobs,
                 dispatchLog, stoppedSince,
                 clipVars, tracing, netLog, tempFiles,
                 stopCalls, pureVars>>

\* Ledger: many results in a row, the n-th with a score of its own, so that
\* the entries of a history are told apart and cross the threshold.
StreamScoreAt(n) == STREAM_THRESHOLD * 10 - 10 + n
ClipScoreAt(n) == CLIP_THRESHOLD * 10 - 10 + n

NextLedger ==
  \/ closures = <<>> /\ StartRecording
  \/ \E k \in starting : StartResolved(k)
  \/ \E t \in timers :
       /\ Len(resultLog) < MaxPush
       /\ ResultArrives(t, StreamScoreAt(Len(resultLog) + 1))
  \/ /\ Len(clipLog) < MaxPush
     /\ ClipResult(ClipScoreAt(Len(clipLog) + 1))

SpecLedger == Init /\ [][NextLedger]_vars

\* Score: the first result of either flow, with any score from 0.0% to 100.0%.
NextScore ==
  \/ closures = <<>> /\ StartRecording
  \/ \E k \in starting : StartResolved(k)
  \/ \E t \in timers, a \in 0..MaxTenths :
       /\ resultLog = <<>> /\ clipLog = <<>>
       /\ ResultArrives(t, a)
  \/ \E a \in 0..MaxTenths :
       /\ resultLog = <<>> /\ clipLog = <<>>
       /\ ClipResult(a)

SpecScore == Init /\ [][NextScore]_vars

\* Sessions: results handled in one session after another, each session
\* started and stopped (the capture device starting, stopping or failing);
\* START is pressed when no earlier press is still waiting for the device.
NextSessions ==
  \/ starting = {} /\ stopping = <<>> /\ StartRecording
  \/ \E k \in starting : StartResolved(k)
  \/ \E k \in starting : StartRejected(k)
  \/ StopRecording
  \/ \E n \in 1..Len(stopping) : StopResolved(n)
  \/ \E n \in 1..Len(stopping) : StopRejected(n)
  \/ \E t \in timers :
       /\ Len(resultLog) < MaxPush
       /\ ResultArrives(t, StreamScoreAt(Len(resultLog) + 1))

SpecSessions == Init /\ [][NextSessions]_vars

\* ----------------------------------------------------- chunk round trips
\* One app at a time: the streaming app in its first session, or the
\* single-clip app; every chunk's traffic is recorded in netLog (clipJob keeps
\* that of the clip).  The audio is loud, so that ticks dispatch.
InitChunk ==
  /\ InitApp
  /\ tracing = TRUE
  /\ wavCase = NoCase
  /\ scanCase = NoCase
  /\ parseCase = NoCase

NextChunk ==
  \/ Advance
  \/ AppendSamples(<<1, 1>>)
  \/ closures = <<>> /\ clipJob = NoClipJob /\ StartRecording
  \/ \E k \in starting : StartResolved(k)
  \/ \E t \in timers : Len(dispatchLog) < MaxChunks /\ Tick(t)
  \/ \E j \in jobs, ok \in BOOLEAN : FileWritten(j, ok)
  \/ \E j \in jobs, ok \in BOOLEAN : UploadResponse(j, ok)
  \/ \E j \in jobs, r \in {"event_id", "no_id", "malformed"} : SubmitResponse(j, r)
  \/ \E j \in jobs, a \in PollScores : PollResult(j, a)
  \/ \E j \in jobs : PollEmpty(j)
  \/ \E j \in jobs : PollRejected(j)
  \/ \E j \in jobs : PollResultThrows(j)
  \/ closures = <<>> /\ ProcessAudio
  \/ \E ok \in BOOLEAN : ClipUploadResponse(ok)
  \/ \E r \in {"event_id", "no_id", "malformed"} : ClipSubmitResponse(r)
  \/ \E a \in PollScores : ClipPollResult(a)
  \/ ClipPollEmpty
  \/ \E how \in {"rejected", "threw"} : ClipPollRejected(how)

SpecChunk == InitChunk /\ [][NextChunk]_vars

\* ------------------------------------------------------ buffer and windows
\* One session in which the capture delivers batches that can be told apart
\* and the buffer outgrows a window; each dispatched chunk records its window.
WindowBlocks == {<<0, 1>>, <<1, 0>>, <<1, 1>>}

NextBuffer ==
  \/ Advance
  \/ \E block \in WindowBlocks : AppendSamplesUpTo(block, MaxFill)
  \/ closures = <<>> /\ StartRecording
  \/ \E k \in starting : StartResolved(k)
  \/ \E t \in timers : Len(dispatchLog) < MaxChunks /\ Tick(t)
  \/ \E j \in jobs : FileWritten(j, FALSE)

SpecBuffer == InitChunk /\ [][NextBuffer]_vars

\* ------------------------------------------------------ the flow as written
\* The streaming app with the capture callback of the source, whose body is
\* empty: nothing appends to the sample buffer.
NextAsWritten ==
  \/ Advance
  \/ StartRecording
  \/ \E k \in starting : StartResolved(k)
  \/ \E k \in starting : StartRejected(k)
  \/ StopRecording
  \/ \E n \in 1..Len(stopping) : StopResolved(n)
  \/ \E n \in 1..Len(stopping) : StopRejected(n)
  \/ \E t \in timers : Tick(t)

SpecAsWritten == InitChunk /\ [][NextAsWritten]_vars

\* ------------------------------------------------------- the interval gate
\* START pressed twice before the capture device has started, so that two
\* timers are armed (at different times) and ticks arrive less than
\* STREAM_INTERVAL apart; the audio is loud, and chunks end at the file write.
NextGate ==
  \/ AdvanceBy(GateStep)
  \/ AppendSamples(<<1, 1>>)
  \/ StartRecording
  \/ \E k \in starting : StartResolved(k)
  \/ \E t \in timers : Tick(t)
  \/ \E j \in jobs : FileWritten(j, FALSE)

SpecGate == InitChunk /\ [][NextGate]_vars

\* ----------------------------------------------------- stopRecording calls
\* Sessions as above, with stopRecording called in any state: before a
\* session, while START waits for the capture device, after a stop.
NextStop ==
  \/ starting = {} /\ stopping = <<>> /\ StartRecording
  \/ \E k \in starting : StartResolved(k)
  \/ \E k \in starting : StartRejected(k)
  \/ StopRecordingCalled
  \/ \E n \in 1..Len(stopping) : StopResolved(n)
  \/ \E n \in 1..Len(stopping) : StopRejected(n)
  \/ \E t \in timers, a \in PollScores :
       /\ Len(resultLog) < MaxChunks
       /\ ResultArrives(t, a)

SpecStop == InitChunk /\ [][NextStop]_vars

\* ============================================================ the claims
SessionOf(log, s) == SelectSeq(log, LAMBDA e : e.session = s)
AllZero(window) == \A n \in 1..Len(window) : window[n] = 0
UploadStarted(j) == j.phase # "file"

\* C1: within a session at most one chunk round trip (upload, submit, poll) is
\* outstanding at any time: a tick that fires while an earlier chunk of the
\* session is still being processed starts no second upload.
C1_OneRoundTripAtATime ==
  \A j1, j2 \in jobs :
    (j1.cl = j2.cl /\ UploadStarted(j1) /\ UploadStarted(j2)) => j1 = j2

\* C2: once stopRecording has run, the completion of a chunk that was still
\* outstanding is discarded: it produces no DetectionResult and changes
\* neither lastResult, history, the detection state nor the status string.
C2_StopDiscardsCompletion ==
  [][(stoppedSince /\ jobs' # jobs /\ jobs' \subseteq jobs) =>
       /\ resultLog' = resultLog
       /\ lastResult' = lastResult
       /\ history' = history
       /\ detectionEvent' = detectionEvent
       /\ consecutiveDetectionsRef' = consecutiveDetectionsRef
       /\ streamingStatus' = streamingStatus]_vars

\* C3: among the results of one session a rising edge (the notification) is
\* emitted only on an Idle-to-Alerting transition, so two rising edges are
\* separated by a falling edge; the isAI sequence true, true, false gives
\* exactly one rising edge (first result) and one falling edge (third result).
C3_HysteresisEdges ==
  \A s \in 1..Len(closures) :
    LET r == SessionOf(resultLog, s) IN
      /\ \A m, n \in 1..Len(r) :
           (m < n /\ r[m].edge = "rise" /\ r[n].edge = "rise") =>
             \E k \in (m + 1)..(n - 1) : r[k].edge = "fall"
      /\ ( /\ Len(r) = 3
           /\ r[1].result.isAI /\ r[2].result.isAI /\ ~r[3].result.isAI )
         => (r[1].edge = "rise" /\ r[2].edge = "none" /\ r[3].edge = "fall")

\* C4: the chunkIds of the windows a session dispatches are 1, 2, 3, ... in
\* dispatch order.
C4_ChunkIdsCountUp ==
  \A s \in 1..Len(closures) :
    LET d == SessionOf(dispatchLog, s) IN
      \A n \in 1..Len(d) : d[n].chunkId = n

\* C5: results are handled in the order their chunks were dispatched.
C5_ResultsInDispatchOrder ==
  \A m, n \in 1..Len(resultLog) :
    m < n => resultLog[m].seq < resultLog[n].seq

\* C6: a tick whose window (the last CHUNK_DURATION * RATE samples of the
\* buffer) is all zeros dispatches nothing: every step that dispatches a chunk
\* starts from a buffer whose window is not all zeros.
C6_SilentWindowSkipped ==
  [][Len(dispatchLog') > Len(dispatchLog) =>
       ~AllZero(SliceTail(audioBufferRef, samplesNeeded))]_vars

\* C9: from the moment stopRecording has run until the next startRecording, no
\* timer is live, no chunkId is assigned and no upload is started.
C9_StopEndsDispatch ==
  [][stoppedSince' =>
       /\ timers' = {}
       /\ dispatchLog' = dispatchLog
       /\ {j \in jobs' : j.phase = "upload"} \subseteq jobs]_vars

\* C10: every session evaluates its results against the detection state
\* {active: false, consecutiveCount: 0} it was reset to at its start, so the
\* first isAI result of every session emits a rising edge.
C10_FirstAIResultAlerts ==
  \A s \in 1..Len(closures) :
    LET r == SessionOf(resultLog, s) IN
      \A n \in 1..Len(r) :
        (r[n].result.isAI /\ \A k \in 1..(n - 1) : ~r[k].result.isAI)
          => r[n].edge = "rise"


RECURSIVE Reverse(_)
Reverse(q) == IF q = <<>> THEN <<>> ELSE Reverse(Tail(q)) \o <<Head(q)>>
ResultsOf(log) == [n \in 1..Len(log) |-> log[n].result]

\* C7: however many results are pushed, the history holds at most N entries
\* (20 streaming, 10 single clip), most recent first, and they are the N most
\* recent results: what is evicted is the oldest.
C7_HistoryBounded ==
  /\ Len(history) <= STREAM_HISTORY
  /\ history = SliceHead(Reverse(ResultsOf(resultLog)), STREAM_HISTORY)
  /\ Len(clipHistory) <= CLIP_HISTORY
  /\ clipHistory = SliceHead(Reverse(clipLog), CLIP_HISTORY)

C7_Witness ==
  /\ Len(resultLog) > STREAM_HISTORY /\ Len(history) = STREAM_HISTORY
  /\ Len(clipLog) > CLIP_HISTORY /\ Len(clipHistory) = CLIP_HISTORY
  /\ history[1] = resultLog[Len(resultLog)].result
  /\ clipHistory[1] = clipLog[Len(clipLog)]

\* C8: isAI is true exactly when aiPercent is strictly greater than the
\* threshold (30 streaming, 50 single clip); a score equal to the threshold
\* gives isAI = false.
C8_StrictThreshold ==
  /\ \A n \in 1..Len(history) :
       /\ history[n].isAI <=> history[n].aiPercent > 300
       /\ history[n].aiPercent = 300 => ~history[n].isAI
  /\ \A n \in 1..Len(clipHistory) :
       /\ clipHistory[n].isAI <=> clipHistory[n].aiPercent > 500
       /\ clipHistory[n].aiPercent = 500 => ~clipHistory[n].isAI

C8_Witness ==
  /\ Len(history) = 1
  /\ lastResult.aiPercent = 300
  /\ ~lastResult.isAI

\* ------------------------------------------------------------ createWavBlob
\* string.charCodeAt(i) for the characters the header is written with.
CharCode(c) ==
  CASE c = "R" -> 82 [] c = "I" -> 73 [] c = "F" -> 70 [] c = "W" -> 87
    [] c = "A" -> 65 [] c = "V" -> 86 [] c = "E" -> 69 [] c = "f" -> 102
    [] c = "m" -> 109 [] c = "t" -> 116 [] c = " " -> 32 [] c = "d" -> 100
    [] c = "a" -> 97

\* The bytes DataView writes: setUint8 per character, setUint32 and setUint16
\* with littleEndian = true, setInt16 after the conversion to a 16-bit integer.
\* The values written with setUint32 here are below 2^31, where the
\* conversion to 32 bits changes nothing.
StringBytes(string) == [i \in 1..Len(string) |-> CharCode(string[i])]
\* (variant: the littleEndian argument left out, most significant byte first)
Uint32BE(v) ==
  <<(v \div 16777216) % 256, (v \div 65536) % 256, (v \div 256) % 256,
    v % 256>>
Uint32LE(v) ==
  <<v % 256, (v \div 256) % 256, (v \div 65536) % 256,
    (v \div 16777216) % 256>>
Uint16LE(v) == LET w == v % 65536 IN <<w % 256, (w \div 256) % 256>>
Int16LE(v) == Uint16LE(v + 65536)

\* A sample is a number of steps of 1 / SampleScale: x stands for the
\* JavaScript number x / SampleScale, full scale is SampleScale.
\* Math.max(-1, Math.min(1, audioData[i]))
\* (variant: the sample is scaled as it comes)
NoClamp(x) == x
Clamp(x) ==
  IF x < -SampleScale THEN -SampleScale
  ELSE IF x > SampleScale THEN SampleScale ELSE x

\* The integer setInt16 makes of the number num / den: the fraction is
\* dropped (truncation toward zero), before the reduction to 16 bits.
ToInteger(num, den) ==
  IF num >= 0 THEN num \div den ELSE -((-num) \div den)

\* The buffer with bytes written from the (0-based) offset on.
SetBytes(buffer, offset, bytes) ==
  [n \in 1..Len(buffer) |->
     IF n > offset /\ n <= offset + Len(bytes) THEN bytes[n - offset]
     ELSE buffer[n]]

RECURSIVE WriteSamples(_, _, _, _)
WriteSamples(buffer, audioData, i, offset) ==
  IF i > Len(audioData) THEN buffer
  ELSE WriteSamples(
         SetBytes(buffer, offset,
                  Int16LE(ToInteger(Clamp(audioData[i]) * INT16_MAX,
                                    SampleScale))),
         audioData, i + 1, offset + 2)

createWavBlob(audioData, sampleRate) ==
  LET length == Len(audioData)
      b0  == [n \in 1..(44 + length * 2) |-> 0]
      b1  == SetBytes(b0, 0, StringBytes(<<"R", "I", "F", "F">>))
      b2  == SetBytes(b1, 4, Uint32LE(36 + length * 2))
      b3  == SetBytes(b2, 8, StringBytes(<<"W", "A", "V", "E">>))
      b4  == SetBytes(b3, 12, StringBytes(<<"f", "m", "t", " ">>))
      b5  == SetBytes(b4, 16, Uint32LE(16))
      b6  == SetBytes(b5, 20, Uint16LE(1))
      b7  == SetBytes(b6, 22, Uint16LE(1))
      b8  == SetBytes(b7, 24, Uint32LE(sampleRate))
      b9  == SetBytes(b8, 28, Uint32LE(sampleRate * 2))
      b10 == SetBytes(b9, 32, Uint16LE(2))
      b11 == SetBytes(b10, 34, Uint16LE(16))
      b12 == SetBytes(b11, 36, StringBytes(<<"d", "a", "t", "a">>))
      b13 == SetBytes(b12, 40, Uint32LE(length * 2))
  IN WriteSamples(b13, audioData, 1, 44)

\* Windows of 1..MaxWindow samples between -2 and 2, some beyond full scale,
\* at the rate of the source and at other common rates.
WavSamples == (-2 * SampleScale)..(2 * SampleScale)
WavRates == {8000, 22050, 44100}
WavWindows == UNION {[1..n -> WavSamples] : n \in 1..MaxWindow}

InitWav ==
  /\ InitApp
  /\ tracing = FALSE
  /\ wavCase \in {[applied |-> FALSE, audioData |-> a, sampleRate |-> r,
                   bytes |-> <<>>] : a \in WavWindows, r \in WavRates}
  /\ scanCase = NoCase
  /\ parseCase = NoCase

CreateWavBlob ==
  /\ ~wavCase.applied
  /\ wavCase' = [wavCase EXCEPT
       !.applied = TRUE,
       !.bytes = createWavBlob(wavCase.audioData, wavCase.sampleRate)]
  /\ UNCHANGED <<now, isDevelopment, streamingVars, clipVars, tracing,
                 scanCase, parseCase>>

SpecWav == InitWav /\ [][CreateWavBlob]_vars

\* A RIFF/WAVE reader: little-endian fields at their offsets.
ReadUint16(bytes, offset) == bytes[offset + 1] + 256 * bytes[offset + 2]
ReadUint32(bytes, offset) ==
  bytes[offset + 1] + 256 * bytes[offset + 2] + 65536 * bytes[offset + 3]
    + 16777216 * bytes[offset + 4]

\* C12: for a window of N > 0 samples at rate R the blob has 44 + 2N bytes and
\* its header reads: RIFF size 36 + 2N, format tag 1 (PCM), 1 channel, rate R,
\* byte rate 2R, block align 2, 16 bits per sample, data size 2N.
C12_WavHeader ==
  wavCase.applied =>
    LET bytes == wavCase.bytes
        N == Len(wavCase.audioData)
        R == wavCase.sampleRate
    IN /\ Len(bytes) = 44 + 2 * N
       /\ ReadUint32(bytes, 4) = 36 + 2 * N
       /\ ReadUint16(bytes, 20) = 1
       /\ ReadUint16(bytes, 22) = 1
       /\ ReadUint32(bytes, 24) = R
       /\ ReadUint32(bytes, 28) = 2 * R
       /\ ReadUint16(bytes, 32) = 2
       /\ ReadUint16(bytes, 34) = 16
       /\ ReadUint32(bytes, 40) = 2 * N

C12_Witness ==
  /\ wavCase.applied
  /\ Len(wavCase.audioData) = 3
  /\ wavCase.sampleRate = 22050
  /\ Len(wavCase.bytes) = 50
  /\ ReadUint32(wavCase.bytes, 24) = 22050

\* ------------------------------------------------------ poll response scan
\* JSON values as JSON.parse returns them, and the lines of a poll response
\* after text.split('\n'): data tells whether the line starts with 'data: ',
\* ok whether JSON.parse accepts the rest of it.
JNull == [type |-> "null", str |-> "", num |-> 0, items |-> <<>>]
JObject == [type |-> "object", str |-> "", num |-> 0, items |-> <<>>]
JString(str) == [type |-> "string", str |-> str, num |-> 0, items |-> <<>>]
JNumber(num) == [type |-> "number", str |-> "", num |-> num, items |-> <<>>]
JArray(items) == [type |-> "array", str |-> "", num |-> 0, items |-> items]
Line(data, ok, json) == [data |-> data, ok |-> ok, json |-> json]

\* if (result): null, 0 and "" are falsy.
Truthy(v) ==
  CASE v.type = "null" -> FALSE
    [] v.type = "string" -> v.str # ""
    [] v.type = "number" -> v.num # 0
    [] OTHER -> TRUE

\* The inner loop over the lines: result = data[0] of the first data line
\* that parses to an array with an element; null when there is none.
RECURSIVE ScanLines(_)
ScanLines(lines) ==
  IF lines = <<>> THEN JNull
  ELSE LET line == Head(lines)
       IN IF /\ line.data /\ line.ok
             /\ line.json.type = "array" /\ Len(line.json.items) > 0
            THEN line.json.items[1]
            ELSE ScanLines(Tail(lines))

\* What one poll response leads to: no result (the loop goes on), a result
\* text handed to the parser, or result.match throwing on a value that is not
\* a string.
ScanResponse(lines) ==
  LET result == ScanLines(lines)
  IN IF ~Truthy(result) THEN [kind |-> "none", text |-> ""]
     ELSE IF result.type = "string"
            THEN [kind |-> "result", text |-> result.str]
            ELSE [kind |-> "throws", text |-> ""]

\* Lines a response is made of: an event line, a data line that is not JSON,
\* and data lines with JSON values of every shape.
LineKinds ==
  {Line(FALSE, FALSE, JNull), Line(TRUE, FALSE, JNull)} \cup
  {Line(TRUE, TRUE, v) :
     v \in {JNull, JObject, JArray(<<>>), JArray(<<JString("")>>),
            JArray(<<JNumber(0)>>), JArray(<<JNumber(42)>>),
            JArray(<<JString("A")>>), JArray(<<JString("B"), JNumber(1)>>)}}
Responses == UNION {[1..n -> LineKinds] : n \in 1..MaxLines}

InitScan ==
  /\ InitApp
  /\ tracing = FALSE
  /\ wavCase = NoCase
  /\ scanCase \in {[applied |-> FALSE, lines |-> l,
                    found |-> [kind |-> "none", text |-> ""]] : l \in Responses}
  /\ parseCase = NoCase

PollResponseScanned ==
  /\ ~scanCase.applied
  /\ scanCase' = [scanCase EXCEPT !.applied = TRUE,
                                  !.found = ScanResponse(scanCase.lines)]
  /\ UNCHANGED <<now, isDevelopment, streamingVars, clipVars, tracing,
                 wavCase, parseCase>>

SpecScan == InitScan /\ [][PollResponseScanned]_vars

\* A line that carries a classification result: a data line whose JSON is an
\* array with a non-empty string as first element.
IsResultLine(line) ==
  /\ line.data /\ line.ok
  /\ line.json.type = "array" /\ Len(line.json.items) > 0
  /\ line.json.items[1].type = "string" /\ line.json.items[1].str # ""

\* C16: the result of a poll response is the first element of its first
\* result line, every other line being skipped; without a result line the
\* response has no result.
C16_FirstResultLine ==
  scanCase.applied =>
    LET lines == scanCase.lines
        at == {n \in 1..Len(lines) : IsResultLine(lines[n])}
    IN IF at = {} THEN scanCase.found.kind = "none"
       ELSE LET first == CHOOSE n \in at : \A m \in at : n <= m
            IN /\ scanCase.found.kind = "result"
               /\ scanCase.found.text = lines[first].json.items[1].str

\* ------------------------------------------------------------ score parser
\* A text is a sequence of characters.  The two regular expressions
\*   /AI Generated[^0-9]*(\d+\.?\d*)%/i   and   /Real Voice[^0-9]*(\d+\.?\d*)%/i
\* are matched as String.prototype.match does: the leftmost start at which
\* the pattern matches, and there the first way of matching in backtracking
\* order, every quantifier taking as much as it can first.
Digits == <<"0", "1", "2", "3", "4", "5", "6", "7", "8", "9">>
IsDigit(c) == \E d \in 1..10 : Digits[d] = c
DigitValue(c) == (CHOOSE d \in 1..10 : Digits[d] = c) - 1

UpperLetters ==
  <<"A", "B", "C", "D", "E", "F", "G", "H", "I", "J", "K", "L", "M", "N",
    "O", "P", "Q", "R", "S", "T", "U", "V", "W", "X", "Y", "Z">>
LowerLetters ==
  <<"a", "b", "c", "d", "e", "f", "g", "h", "i", "j", "k", "l", "m", "n",
    "o", "p", "q", "r", "s", "t", "u", "v", "w", "x", "y", "z">>
\* Case folding of the i flag.
ToLower(c) ==
  IF \E n \in 1..26 : UpperLetters[n] = c
    THEN LowerLetters[CHOOSE n \in 1..26 : UpperLetters[n] = c]
    ELSE c

AI_LABEL ==
  <<"A", "I", " ", "G", "e", "n", "e", "r", "a", "t", "e", "d">>
REAL_LABEL ==
  <<"R", "e", "a", "l", " ", "V", "o", "i", "c", "e">>

\* The literal part of the pattern matches at position p.
\* (variant: without the i flag)
LabelAtCaseSensitive(text, p, label) ==
  /\ p + Len(label) - 1 <= Len(text)
  /\ \A n \in 1..Len(label) : text[p + n - 1] = label[n]
LabelAt(text, p, label) ==
  /\ p + Len(label) - 1 <= Len(text)
  /\ \A n \in 1..Len(label) : ToLower(text[p + n - 1]) = ToLower(label[n])

\* Number of characters from position a on that are digits (digit = TRUE) or
\* are not (digit = FALSE).
RECURSIVE RunOf(_, _, _)
RunOf(text, a, digit) ==
  IF a > Len(text) \/ IsDigit(text[a]) # digit THEN 0
  ELSE 1 + RunOf(text, a + 1, digit)

\* The ways [^0-9]*(\d+\.?\d*)% matches from position q on: <<n0, d1, dot, d2>>
\* are the lengths taken by [^0-9]*, \d+, \.? and \d*.
Paths(text, q) ==
  UNION {UNION {UNION {
    {<<n0, d1, dot, d2>> :
       d2 \in {d \in 0..RunOf(text, q + n0 + d1 + dot, TRUE) :
                 /\ q + n0 + d1 + dot + d <= Len(text)
                 /\ text[q + n0 + d1 + dot + d] = "%"}} :
    dot \in {x \in {0, 1} :
               x = 1 => /\ q + n0 + d1 <= Len(text)
                        /\ text[q + n0 + d1] = "."}} :
    d1 \in 1..RunOf(text, q + n0, TRUE)} :
    n0 \in 0..RunOf(text, q, FALSE)}

\* x is tried before y, or is y.
TriedFirst(x, y) ==
  \/ x[1] > y[1]
  \/ x[1] = y[1] /\ x[2] > y[2]
  \/ x[1] = y[1] /\ x[2] = y[2] /\ x[3] > y[3]
  \/ x[1] = y[1] /\ x[2] = y[2] /\ x[3] = y[3] /\ x[4] >= y[4]

\* result.match(pattern)[1]: the characters the group captured, <<>> when
\* the pattern does not match.
Match(text, label) ==
  LET starts == {p \in 1..Len(text) :
                   LabelAt(text, p, label) /\ Paths(text, p + Len(label)) # {}}
  IN IF starts = {} THEN <<>>
     ELSE LET p == CHOOSE x \in starts : \A y \in starts : x <= y
              q == p + Len(label)
              way == CHOOSE x \in Paths(text, q) :
                       \A y \in Paths(text, q) : TriedFirst(x, y)
          IN SubSeq(text, q + way[1], q + way[1] + way[2] + way[3] + way[4] - 1)

\* Numbers are fractions num / den; NaN is 0 / 0.
NaN == [num |-> 0, den |-> 0]
Zero == [num |-> 0, den |-> 1]
RECURSIVE DigitsValue(_)
DigitsValue(ds) ==
  IF ds = <<>> THEN 0
  ELSE DigitsValue(SubSeq(ds, 1, Len(ds) - 1)) * 10 + DigitValue(ds[Len(ds)])
RECURSIVE Pow10(_)
Pow10(n) == IF n = 0 THEN 1 ELSE 10 * Pow10(n - 1)

\* parseFloat of digits, optionally followed by a point and digits; of the
\* empty string it is NaN.
parseFloat(string) ==
  IF string = <<>> THEN NaN
  ELSE LET whole == RunOf(string, 1, TRUE)
           frac == SubSeq(string, whole + 2, Len(string))
       IN [num |-> DigitsValue(SubSeq(string, 1, whole) \o frac),
           den |-> Pow10(Len(frac))]

\* match ? parseFloat(match[1]) : 0
\* (variant: parseFloat applied whether or not the pattern matched)
ScoreUnguarded(captured) == parseFloat(captured)
ScoreOrZero(captured) ==
  IF captured = <<>> THEN Zero ELSE parseFloat(captured)

\* Texts: the classifier's usual answer, and every text of up to MaxPieces
\* pieces.
ExampleText ==
  <<"A", "I", " ", "G", "e", "n", "e", "r", "a", "t", "e", "d", ":", " ",
    "8", "2", ".", "5", "%", " ", "|", " ", "R", "e", "a", "l", " ", "V",
    "o", "i", "c", "e", ":", " ", "1", "7", ".", "5", "%">>
Pieces ==
  {AI_LABEL,
   <<"a", "i", " ", "G", "E", "N", "E", "R", "A", "T", "E", "D">>,
   REAL_LABEL, <<":", " ">>, <<"8", "2">>, <<".", "5">>, <<"%">>}
RECURSIVE Concat(_)
Concat(ps) == IF ps = <<>> THEN <<>> ELSE Head(ps) \o Concat(Tail(ps))
Texts ==
  {ExampleText} \cup
  {Concat(ps) : ps \in UNION {[1..n -> Pieces] : n \in 1..MaxPieces}}

InitParse ==
  /\ InitApp
  /\ tracing = FALSE
  /\ wavCase = NoCase
  /\ scanCase = NoCase
  /\ parseCase \in {[applied |-> FALSE, text |-> t, aiPercent |-> NaN,
                     realPercent |-> NaN] : t \in Texts}

\* The scores of a result text, as handleStreamingResult and processAudio
\* read them.
ParseResult ==
  /\ ~parseCase.applied
  /\ parseCase' = [parseCase EXCEPT
       !.applied = TRUE,
       !.aiPercent = ScoreOrZero(Match(parseCase.text, AI_LABEL)),
       !.realPercent = ScoreOrZero(Match(parseCase.text, REAL_LABEL))]
  /\ UNCHANGED <<now, isDevelopment, streamingVars, clipVars, tracing,
                 wavCase, scanCase>>

SpecParse == InitParse /\ [][ParseResult]_vars

\* The claims' reading of a score: the characters a..b are a number (digits,
\* then optionally a point and digits) that follows the label at p, whatever
\* its case, with no digit in between, and "%" follows the number.
SameLetter(x, y) == ToLower(x) = ToLower(y)
IsNumber(text, a, b) ==
  \E k \in a..b :
    /\ \A n \in a..k : IsDigit(text[n])
    /\ k = b \/ (text[k + 1] = "." /\ \A n \in (k + 2)..b : IsDigit(text[n]))
LabelStarts(text, label) ==
  {p \in 1..(Len(text) - Len(label) + 1) :
     \A n \in 1..Len(label) : SameLetter(text[p + n - 1], label[n])}
NumberStarts(text, q) ==
  {a \in q..Len(text) :
     IsDigit(text[a]) /\ \A n \in q..(a - 1) : ~IsDigit(text[n])}
NumberEnds(text, a) ==
  {b \in a..(Len(text) - 1) : IsNumber(text, a, b) /\ text[b + 1] = "%"}
ScoreSpans(text, label) ==
  UNION {UNION {{<<p, a, b>> : b \in NumberEnds(text, a)} :
                a \in NumberStarts(text, p + Len(label))} :
         p \in LabelStarts(text, label)}
SameNumber(x, y) == x.den # 0 /\ y.den # 0 /\ x.num * y.den = y.num * x.den

\* C17: a label without a "<label><non-digits><number>%" match has the score
\* 0; the scores are always numbers (no error, the record is produced).
C17_MissingScoreIsZero ==
  parseCase.applied =>
    /\ parseCase.aiPercent.den # 0 /\ parseCase.realPercent.den # 0
    /\ ScoreSpans(parseCase.text, AI_LABEL) = {} =>
         parseCase.aiPercent.num = 0
    /\ ScoreSpans(parseCase.text, REAL_LABEL) = {} =>
         parseCase.realPercent.num = 0

C17_Witness ==
  /\ parseCase.applied
  /\ parseCase.text = Concat(<<AI_LABEL, <<"8", "2">>, <<"%">>, REAL_LABEL>>)
  /\ parseCase.aiPercent = [num |-> 82, den |-> 1]
  /\ parseCase.realPercent = Zero

\* C18: "AI Generated: 82.5% | Real Voice: 17.5%" gives aiPercent = 82.5 and
\* realPercent = 17.5; in general the score of a label is the number of the
\* first score span of that label.
FirstSpan(spans) ==
  CHOOSE x \in spans : \A y \in spans : x[1] <= y[1]
ScoreIsFirstSpan(text, label, score) ==
  LET spans == ScoreSpans(text, label)
  IN spans # {} =>
       SameNumber(score, parseFloat(SubSeq(text, FirstSpan(spans)[2],
                                           FirstSpan(spans)[3])))
C18_ScoreParser ==
  parseCase.applied =>
    /\ parseCase.text = ExampleText =>
         /\ SameNumber(parseCase.aiPercent, [num |-> 825, den |-> 10])
         /\ SameNumber(parseCase.realPercent, [num |-> 175, den |-> 10])
    /\ ScoreIsFirstSpan(parseCase.text, AI_LABEL, parseCase.aiPercent)
    /\ ScoreIsFirstSpan(parseCase.text, REAL_LABEL, parseCase.realPercent)

C18_Witness ==
  /\ parseCase.applied
  /\ parseCase.text = ExampleText
  /\ parseCase.aiPercent = [num |-> 825, den |-> 10]
  /\ parseCase.realPercent = [num |-> 175, den |-> 10]

\* ------------------------------------------------ chunk round trips (claims)
ChunkFailures == {"file", "upload", "submit", "exhausted", "rejected", "threw"}
Chunks == 1..Len(netLog)
EndsNow(s, how) == netLog[s].ended = "" /\ netLog'[s].ended \in how
HasResult(s) == \E n \in 1..Len(resultLog) : resultLog[n].seq = s
InProgress(s) == \E j \in jobs : j.seq = s
Last(q) == q[Len(q)]

\* C11: a chunk that fails (file write, upload rejected, submit response
\* unusable, poll budget exhausted, poll request rejected, exception while the
\* result is handled) leaves the session as it was: the timer armed, the
\* session recording and streaming, so that a later tick can dispatch.
C11_FailureKeepsSession ==
  [][\A s \in Chunks : EndsNow(s, ChunkFailures) =>
       /\ timers' = timers /\ timers' # {}
       /\ streamingIntervalRef' = streamingIntervalRef
       /\ isRecording' /\ isStreamingRef'
       /\ audioBufferRef' = audioBufferRef]_vars

C11_Witness ==
  /\ Len(netLog) = 2
  /\ netLog[1].ended = "upload"
  /\ netLog[2].alone
  /\ isRecording /\ timers # {}

\* C13: a chunk sends at most POLL_ATTEMPTS poll requests (the clip at most
\* CLIP_POLL_ATTEMPTS); a chunk whose attempts are used up is over, has no
\* DetectionResult, and the step that ends it changes neither the history,
\* the last result, the detection state nor the session.
C13_PollBudget ==
  /\ [](/\ \A s \in Chunks :
             /\ netLog[s].polls <= POLL_ATTEMPTS
             /\ netLog[s].ended = "exhausted" =>
                  /\ netLog[s].polls = POLL_ATTEMPTS
                  /\ ~HasResult(s) /\ ~InProgress(s)
        /\ clipJob.polls <= CLIP_POLL_ATTEMPTS
        /\ clipJob.ended = "exhausted" =>
             (clipJob.polls = CLIP_POLL_ATTEMPTS /\ clipJob.phase = "done"))
  /\ [][/\ \A s \in Chunks : EndsNow(s, {"exhausted"}) =>
             /\ UNCHANGED <<resultLog, history, lastResult, detectionEvent,
                            consecutiveDetectionsRef>>
             /\ timers' = timers /\ isRecording' /\ isStreamingRef'
        /\ (clipJob.ended = "" /\ clipJob'.ended = "exhausted") =>
             UNCHANGED <<clipLog, clipHistory, clipLastResult>>]_vars

C13_Witness ==
  /\ Len(netLog) >= 1
  /\ netLog[1].ended = "exhausted"
  /\ netLog[1].polls = POLL_ATTEMPTS
  /\ isRecording /\ timers # {}

\* C14: a chunk whose upload response is not ok ends there: no submit request
\* and no poll request is sent for it and it has no DetectionResult.
C14_UploadFailureEndsChunk ==
  /\ [](/\ \A s \in Chunks : netLog[s].upload = "failed" =>
             /\ netLog[s].submit = "none" /\ netLog[s].polls = 0
             /\ netLog[s].ended = "upload"
             /\ ~HasResult(s) /\ ~InProgress(s)
        /\ clipJob.upload = "failed" =>
             /\ clipJob.submit = "none" /\ clipJob.polls = 0
             /\ clipJob.ended = "upload" /\ clipJob.phase = "done")
  /\ [][(clipJob.upload # "failed" /\ clipJob'.upload = "failed") =>
          UNCHANGED <<clipLog, clipHistory, clipLastResult>>]_vars

C14_Witness ==
  /\ Len(netLog) >= 1
  /\ netLog[1].upload = "failed"
  /\ netLog[1].ended = "upload"

\* C15: a chunk whose submit response is malformed or has no event_id ends
\* there: no poll request is sent for it and it has no DetectionResult.
C15_SubmitFailureEndsChunk ==
  /\ \A s \in Chunks : netLog[s].submit \in {"no_id", "malformed"} =>
       /\ netLog[s].polls = 0
       /\ ~HasResult(s)
  /\ clipJob.submit \in {"no_id", "malformed"} => clipJob.polls = 0

\* ------------------------------------------------- detection state, time gate
\* C19: a result that is not AI, handled while the detection event is active,
\* ends the event: detectionEvent becomes false, the consecutive count 0, and
\* a falling edge is emitted.
C19_NonAIEndsAlert ==
  [][(/\ Len(resultLog') > Len(resultLog)
      /\ ~Last(resultLog').result.isAI
      /\ detectionEvent) =>
       /\ ~detectionEvent'
       /\ consecutiveDetectionsRef' = 0
       /\ Last(resultLog').edge = "fall"]_vars

\* C20: the time the interval gate measures from changes only in a tick that
\* dispatches a chunk; a tick skipped for buffering or quiet audio leaves it.
C20_GateFromLastDispatch ==
  [][lastProcessTimeRef' # lastProcessTimeRef =>
       Len(dispatchLog') > Len(dispatchLog)]_vars

\* ------------------------------------------------------ ticks and sessions
\* The step is one firing of an interval timer.
IsTick ==
  \E t \in timers :
    /\ t.last # now
    /\ timers' = (timers \ {t}) \cup {[t EXCEPT !.last = now]}
Running == isRecording /\ isStreamingRef
AIRun(r) ==
  IF \A n \in 1..Len(r) : r[n].result.isAI THEN Len(r)
  ELSE Len(r) - (CHOOSE n \in 1..Len(r) :
                   /\ ~r[n].result.isAI
                   /\ \A m \in (n + 1)..Len(r) : r[m].result.isAI)

\* C21: every tick of a running session whose buffer holds fewer than
\* CHUNK_DURATION * RATE samples, none included, sets the status to the
\* buffering message and dispatches nothing.
C21_ShortBufferReportsBuffering ==
  [][(IsTick /\ Running /\ Buffering) =>
       /\ streamingStatus'.tag = "buffering"
       /\ chunkCount' = chunkCount
       /\ dispatchLog' = dispatchLog
       /\ jobs' = jobs]_vars

\* C26 (the part on the session): a startRecording call whose capture device
\* fails leaves the session stopped: not recording, not streaming, no timer.
C26_FailedStartStopsSession ==
  [][(\E k \in starting : starting' = starting \ {k} /\ timers' = timers) =>
       /\ ~isRecording' /\ ~isStreamingRef'
       /\ timers' = {}]_vars

\* C29: at most one interval timer is live at any time.
C29_OneTimer == Cardinality(timers) <= 1

\* C30: after every result handled, detectionEvent holds exactly when the
\* consecutive count is positive, and the count is the length of the run of
\* AI results that ends the results of the session.
C30_FlagAndCounterAgree ==
  [][Len(resultLog') > Len(resultLog) =>
       /\ detectionEvent' <=> consecutiveDetectionsRef' > 0
       /\ consecutiveDetectionsRef' =
            AIRun(SessionOf(resultLog', Last(resultLog').session))]_vars

\* C25: the step in which a dispatched chunk fails (upload rejected, submit
\* response unusable, poll budget exhausted, poll request rejected) leaves a
\* status that no longer shows that chunk as being processed.
C25_FailureShownInStatus ==
  [][\A s \in Chunks :
       EndsNow(s, {"upload", "submit", "exhausted", "rejected"}) =>
         ~(/\ streamingStatus'.tag = "processing"
           /\ streamingStatus'.n = dispatchLog[s].chunkId)]_vars

\* --------------------------------------------------- buffer and windows (claims)
\* The samples of s from position a on, n of them, read one by one.
TakenFrom(s, a, window, n) ==
  /\ Len(window) = n
  /\ a >= 1 /\ a + n - 1 <= Len(s)
  /\ \A i \in 1..n : window[i] = s[a + i - 1]

\* C22: the window of a dispatched chunk has exactly
\* ceil(CHUNK_DURATION * RATE) samples (the product is a whole number, floor
\* and ceil agree), they are the last samples of the buffer as it was at the
\* dispatching tick, in the buffer's order; no later step, an append
\* included, changes the window of a chunk already dispatched.
C22_WindowIsBufferTail ==
  /\ [](\A s \in Chunks :
         TakenFrom(netLog[s].buffer,
                   Len(netLog[s].buffer) - CHUNK_DURATION * RATE + 1,
                   netLog[s].window, CHUNK_DURATION * RATE))
  /\ [][/\ \A s \in Chunks : netLog'[s].window = netLog[s].window
        /\ Len(netLog') > Len(netLog) =>
             Last(netLog').buffer = audioBufferRef]_vars

\* A chunk dispatched from a buffer longer than a window, whose head differs
\* from its tail, and samples appended while the chunk is in progress.
C22_Witness ==
  /\ Len(netLog) >= 1
  /\ Len(netLog[1].buffer) > CHUNK_DURATION * RATE
  /\ netLog[1].window # SubSeq(netLog[1].buffer, 1, CHUNK_DURATION * RATE)
  /\ InProgress(1)
  /\ Len(audioBufferRef) > Len(netLog[1].buffer)

\* C27: the sample buffer never holds more than BUFFER_DURATION * RATE
\* samples.
C27_BufferCapped == Len(audioBufferRef) <= BUFFER_DURATION * RATE

\* ------------------------------------------------------ WAV samples (claims)
\* A 16-bit PCM reader: the signed little-endian sample at the offset.
ReadInt16(bytes, offset) ==
  LET u == ReadUint16(bytes, offset)
  IN IF u >= 32768 THEN u - 65536 ELSE u

\* C23: every encoded sample lies in [-32767, 32767]; a sample above 1
\* encodes as 32767, one below -1 as -32767 (no wrap-around in the 16-bit
\* field); a sample x in [-1, 1] encodes as x * 32767 with its fraction
\* dropped: the integer between 0 and x * 32767 that is less than 1 away.
C23_SamplesClamped ==
  wavCase.applied =>
    \A i \in 1..Len(wavCase.audioData) :
      LET x == wavCase.audioData[i]
          e == ReadInt16(wavCase.bytes, 44 + 2 * (i - 1))
      IN /\ e >= -32767 /\ e <= 32767
         /\ x > SampleScale => e = 32767
         /\ x < -SampleScale => e = -32767
         /\ (x >= 0 /\ x <= SampleScale) =>
              /\ e * SampleScale <= x * 32767
              /\ x * 32767 < (e + 1) * SampleScale
         /\ (x <= 0 /\ x >= -SampleScale) =>
              /\ e * SampleScale >= x * 32767
              /\ x * 32767 > (e - 1) * SampleScale

\* A window with a sample above full scale, one below, and one inside whose
\* scaled value has a fraction, on the negative side.
C23_Witness ==
  /\ wavCase.applied
  /\ Len(wavCase.audioData) = 3
  /\ wavCase.audioData[1] = 2 * SampleScale
  /\ wavCase.audioData[2] = -2 * SampleScale
  /\ wavCase.audioData[3] = -1
  /\ (32767 % SampleScale) # 0
  /\ ReadInt16(wavCase.bytes, 44) = 32767
  /\ ReadInt16(wavCase.bytes, 46) = -32767
  /\ ReadInt16(wavCase.bytes, 48) = -(32767 \div SampleScale)

\* ------------------------------------------------------- sessions (claims)
\* The step starts or stops a session, or ends the wait of a start or stop.
SessionBoundary ==
  \/ closures' # closures
  \/ starting' # starting
  \/ stopping' # stopping
  \/ isRecording' # isRecording

\* C24: a step that starts or stops a session leaves the history and the last
\* result as they were; across sessions the history is the STREAM_HISTORY
\* most recent results of all sessions, most recent first: a result of an
\* earlier session leaves it only when newer results push it out.
C24_HistoryOutlivesSession ==
  /\ [](history = SliceHead(Reverse(ResultsOf(resultLog)), STREAM_HISTORY))
  /\ [][SessionBoundary =>
          history' = history /\ lastResult' = lastResult]_vars

\* A second session is running, the history is full, and it holds results of
\* the first session and of the second.
C24_Witness ==
  /\ Len(closures) = 2 /\ isRecording /\ stoppedSince = FALSE
  /\ Len(history) = STREAM_HISTORY
  /\ Len(resultLog) > STREAM_HISTORY
  /\ Last(resultLog).session = 2
  /\ \E n \in 1..Len(resultLog) :
       /\ resultLog[n].session = 1
       /\ history[STREAM_HISTORY] = resultLog[n].result

\* ------------------------------------------------ the flow as written (claims)
\* C28 as stated: with no samples captured, a tick of a running session that
\* passes the STREAM_INTERVAL gate dispatches a chunk.
C28_TickDispatchesOnTimeAlone ==
  [][(IsTick /\ Running /\ ~TooSoon) =>
       Len(dispatchLog') > Len(dispatchLog)]_vars

\* C28, amended: in the flow as written the sample buffer stays empty and no
\* chunk is ever dispatched; every tick returns at the empty-buffer test,
\* whatever time has elapsed: it changes neither the status, the chunk
\* counter nor the time the interval gate measures from.
C28_NoSamplesNoDispatch ==
  /\ [](audioBufferRef = <<>> /\ dispatchLog = <<>> /\ jobs = {})
  /\ [][IsTick =>
          /\ streamingStatus' = streamingStatus
          /\ chunkCount' = chunkCount
          /\ lastProcessTimeRef' = lastProcessTimeRef]_vars

\* A running session whose timer has fired at a time at which the interval
\* gate is passed, and still nothing dispatched.
C28_Witness ==
  /\ Running /\ starting = {}
  /\ now >= Epoch + STREAM_INTERVAL
  /\ ~TooSoon
  /\ \E t \in timers :
       t.id = streamingIntervalRef /\ t.last = now /\ t.armed < now
  /\ streamingStatus.tag = "waiting"
  /\ dispatchLog = <<>>

\* ------------------------------------------------- temporary files (claims)
\* The file chunk s wrote is still in the cache directory.
FileLeft(s) == \E f \in tempFiles : f.by = s

\* C31: once a chunk's processing has ended, however it ended, the temporary
\* file it wrote is no longer in the cache directory.
C31_TempFileDeleted ==
  \A s \in Chunks : netLog[s].ended # "" => ~FileLeft(s)

\* C32: chunks in progress at the same time that have written their
\* temporary file have different file paths, and a chunk whose upload is in progress still has the file it wrote
\* at its path: no other chunk has overwritten or deleted it.
C32_OwnTempFile ==
  /\ \A j1, j2 \in jobs :
       (j1.seq # j2.seq /\ UploadStarted(j1) /\ UploadStarted(j2)) =>
         j1.chunkId # j2.chunkId
  /\ \A j \in jobs : j.phase = "upload" =>
       [path |-> j.chunkId, by |-> j.seq] \in tempFiles

\* ------------------------------------------------- the interval gate (claims)
\* C33: any two chunks are dispatched at least STREAM_INTERVAL milliseconds
\* apart, and a tick that comes less than STREAM_INTERVAL after the last tick
\* that passed the gate changes nothing: no status, no chunk, and the time
\* the gate measures from stays.
C33_DispatchesApart ==
  /\ [](\A s1, s2 \in Chunks :
         s1 < s2 => netLog[s2].at - netLog[s1].at >= STREAM_INTERVAL)
  /\ [][(IsTick /\ now - lastProcessTimeRef < STREAM_INTERVAL) =>
          /\ UNCHANGED <<reactState, refs, jobs, dispatchLog, resultLog>>
          /\ netLog' = netLog]_vars

\* Two timers, a chunk dispatched by one of them, and the other timer's tick
\* less than STREAM_INTERVAL later, which dispatched nothing.
C33_Witness ==
  /\ Len(netLog) = 1
  /\ \E t1, t2 \in timers :
       /\ t1.last = netLog[1].at /\ t1.armed < t1.last
       /\ t2.last = now /\ t2.armed < t2.last
       /\ t2.last > t1.last
       /\ t2.last - t1.last < STREAM_INTERVAL

\* --------------------------------------------------- stopRecording (claims)
\* C34: a call of stopRecording while isRecording is false changes nothing:
\* the timer handle and the timers, the streaming flag, the capture handle,
\* the status, the history and the last result, the detection state, and no
\* wait for the capture device is started.
C34_IdleStopIsNoOp ==
  [][(stopCalls' > stopCalls /\ ~isRecording) =>
       UNCHANGED <<streamingIntervalRef, timers, isStreamingRef, recordingRef,
                   streamingStatus, history, lastResult, detectionEvent,
                   consecutiveDetectionsRef, isRecording, stopping,
                   stoppedSince>>]_vars

\* stopRecording was called while the first START was still waiting for the
\* capture device (no session had been recording yet): the streaming flag is
\* still set.
C34_Witness ==
  /\ stopCalls >= 1
  /\ Len(closures) = 1 /\ starting = {1}
  /\ ~isRecording /\ isStreamingRef
  /\ ~stoppedSince

\* ------------------------------------------- single-clip recording (claims)
\* The step is a stopRecording call made by a progress timer that ran out.
TimerRanOut ==
  /\ Len(clipRec'.log) > Len(clipRec.log)
  /\ Last(clipRec'.log).by = "timer"

\* C35: when the progress timer of the session that is recording runs out,
\* the capture of that session is stopped and processAudio is run on it.
C35_AutoStopHandsOver ==
  [][(/\ TimerRanOut
      /\ clipRec.isRecording
      /\ Last(clipRec'.log).timer = clipRec.started) =>
       /\ Last(clipRec'.log).stopped = clipRec.started
       /\ Last(clipRec'.log).run
       /\ clipRec.started \notin clipRec'.capturing]_vars

\* C36: a session's capture is stopped at most once and processAudio is run
\* at most once for it; the timer of a session that was stopped with the
\* button calls stopRecording no more, and a timer calls stopRecording only
\* during the session that armed it.
C36_OneStopPerSession ==
  LET log == clipRec.log
      Calls == 1..Len(log)
  IN /\ \A k \in 1..clipRec.started :
          /\ Cardinality({n \in Calls : log[n].stopped = k}) <= 1
          /\ Cardinality({n \in Calls : log[n].session = k /\ log[n].run}) <= 1
     /\ \A n \in Calls : log[n].by = "timer" =>
          /\ ~\E m \in 1..(n - 1) :
                log[m].by = "button" /\ log[m].session = log[n].timer
          /\ log[n].timer = log[n].session

====
